---- MODULE Spec2Model ----
(***************************************************************************)
(* Model of src/main.js: a serverless handler that validates a JSON body,  *)
(* dispatches on `action`, performs one awaited call on the PayPal client  *)
(* and reshapes the result or the error into a JSON envelope.              *)
(*                                                                         *)
(* JavaScript strings that the handler inspects are sequences of           *)
(* one-character strings; JavaScript values are tagged records.  Error     *)
(* messages, response status and response messages are only compared, so   *)
(* they are TLA+ strings.                                                  *)
(***************************************************************************)
EXTENDS Integers, Sequences, FiniteSets

(***************************************************************************)
(* JavaScript values                                                       *)
(***************************************************************************)
Undefined == [t |-> "undefined"]
Null      == [t |-> "null"]
NaN       == [t |-> "nan"]
Bool(b)   == [t |-> "bool", b |-> b]
\* the number m / 10^k
Num(m, k) == [t |-> "num", m |-> m, k |-> k]
Str(s)    == [t |-> "str", s |-> s]
\* an object: a function from property names to values
Obj(f)    == [t |-> "obj", o |-> f]
\* an array: a sequence of values
Arr(a)    == [t |-> "arr", a |-> a]

\* ToBoolean, as used by `!x`, `x || y` and `x && y`
Truthy(v) ==
  CASE v.t = "undefined" -> FALSE
    [] v.t = "null"      -> FALSE
    [] v.t = "nan"       -> FALSE
    [] v.t = "bool"      -> v.b
    [] v.t = "num"       -> v.m # 0
    [] v.t = "str"       -> Len(v.s) > 0
    [] OTHER             -> TRUE

\* reading a property of undefined or null throws a TypeError
Nullish(v) == v.t \in {"undefined", "null"}

\* v[key] for a non-nullish v; the handler reads no property that a
\* primitive or an array defines
Get(v, key) ==
  IF v.t = "obj" /\ key \in DOMAIN v.o THEN v.o[key] ELSE Undefined

\* o with property key set to v
Put(o, key, v) ==
  [x \in (DOMAIN o) \cup {key} |-> IF x = key THEN v ELSE o[x]]

EmptyObject == [x \in {} |-> Undefined]

(***************************************************************************)
(* Characters                                                              *)
(***************************************************************************)
DigitSeq == <<"0", "1", "2", "3", "4", "5", "6", "7", "8", "9">>
Digits   == {DigitSeq[j] : j \in 1..10}
DigitVal(c) == (CHOOSE j \in 1..10 : DigitSeq[j] = c) - 1
UpperSeq == <<"A", "B", "C", "D", "E", "F", "G", "H", "I", "J", "K", "L", "M",
              "N", "O", "P", "Q", "R", "S", "T", "U", "V", "W", "X", "Y", "Z">>
Upper    == {UpperSeq[j] : j \in 1..26}
\* white space skipped by JSON.parse
JsonWS   == {" ", "\t", "\n", "\r"}
\* white space skipped by parseFloat (StrWhiteSpaceChar, ASCII part)
StrWS    == {" ", "\t", "\n", "\r", "\f"}

RECURSIVE Pow10(_)
Pow10(n) == IF n = 0 THEN 1 ELSE 10 * Pow10(n - 1)

\* does s continue with the characters of lit from position i on
StartsWithAt(s, i, lit) ==
  /\ i + Len(lit) - 1 <= Len(s)
  /\ \A j \in 1..Len(lit) : s[i + j - 1] = lit[j]

\* [m, n, i]: the value m of the n digits of s from position i, and the
\* position i after them
RECURSIVE ScanDigits(_, _, _, _)
ScanDigits(s, i, m, n) ==
  IF i <= Len(s) /\ s[i] \in Digits
    THEN ScanDigits(s, i + 1, 10 * m + DigitVal(s[i]), n + 1)
    ELSE [m |-> m, n |-> n, i |-> i]

(***************************************************************************)
(* String literals of the source                                           *)
(***************************************************************************)
sAction       == <<"a", "c", "t", "i", "o", "n">>
sData         == <<"d", "a", "t", "a">>
sAmount       == <<"a", "m", "o", "u", "n", "t">>
sCurrency     == <<"c", "u", "r", "r", "e", "n", "c", "y">>
sOrderId      == <<"o", "r", "d", "e", "r", "I", "d">>
sCreateOrder  == <<"c", "r", "e", "a", "t", "e", "O", "r", "d", "e", "r">>
sCaptureOrder == <<"c", "a", "p", "t", "u", "r", "e", "O", "r", "d", "e", "r">>
sProduction   == <<"p", "r", "o", "d", "u", "c", "t", "i", "o", "n">>
sApprove      == <<"a", "p", "p", "r", "o", "v", "e">>
sEUR          == <<"E", "U", "R">>
sResult        == <<"r", "e", "s", "u", "l", "t">>
sLinks         == <<"l", "i", "n", "k", "s">>
sRel           == <<"r", "e", "l">>
sHref          == <<"h", "r", "e", "f">>
sId            == <<"i", "d">>
sStatus        == <<"s", "t", "a", "t", "u", "s">>
sPayer         == <<"p", "a", "y", "e", "r">>
sCreateTime    == <<"c", "r", "e", "a", "t", "e", "_", "t", "i", "m", "e">>
sPurchaseUnits == <<"p", "u", "r", "c", "h", "a", "s", "e", "_", "u", "n", "i", "t", "s">>

(***************************************************************************)
(* Number <-> string conversions of the language                           *)
(***************************************************************************)
Infinity(neg) == [t |-> "inf", neg |-> neg]

\* the number (-1)^neg * mant * 10^(e - k)
MkNum(neg, mant, k, e) ==
  LET sm == IF neg THEN 0 - mant ELSE mant
  IN  IF k - e >= 0 THEN Num(sm, k - e) ELSE Num(sm * Pow10(e - k), 0)

\* the exponent part at position i of s, if there is a complete one:
\* [ok, e, i]
ScanExponent(s, i) ==
  IF i <= Len(s) /\ s[i] \in {"e", "E"}
    THEN LET sg == i + 1 <= Len(s) /\ s[i + 1] \in {"+", "-"}
             d  == ScanDigits(s, IF sg THEN i + 2 ELSE i + 1, 0, 0)
         IN  IF d.n = 0 THEN [ok |-> FALSE, e |-> 0, i |-> i]
             ELSE [ok |-> TRUE,
                   e  |-> IF sg /\ s[i + 1] = "-" THEN 0 - d.m ELSE d.m,
                   i  |-> d.i]
    ELSE [ok |-> FALSE, e |-> 0, i |-> i]

RECURSIVE IntChars(_)
IntChars(n) ==
  IF n < 10 THEN <<DigitSeq[n + 1]>>
  ELSE IntChars(n \div 10) \o <<DigitSeq[(n % 10) + 1]>>

\* the k digits of f, zero padded on the left
RECURSIVE FracChars(_, _)
FracChars(f, k) ==
  IF k = 0 THEN <<>> ELSE FracChars(f \div 10, k - 1) \o <<DigitSeq[(f % 10) + 1]>>

RECURSIVE StripZeros(_)
StripZeros(s) ==
  IF Len(s) > 0 /\ s[Len(s)] = "0" THEN StripZeros(SubSeq(s, 1, Len(s) - 1)) ELSE s

\* Number::toString for the decimal m / 10^k, in the range where the
\* language prints no exponent (1e-6 <= |x| < 1e21)
NumChars(m, k) ==
  LET a  == IF m < 0 THEN 0 - m ELSE m
      ip == a \div Pow10(k)
      fp == StripZeros(FracChars(a % Pow10(k), k))
  IN  (IF m < 0 THEN <<"-">> ELSE <<>>) \o IntChars(ip)
        \o (IF Len(fp) = 0 THEN <<>> ELSE <<".">> \o fp)

RECURSIVE ToStringJS(_), JoinElements(_, _)
\* Array.prototype.join(","): null and undefined elements print as ""
JoinElements(a, i) ==
  IF i > Len(a) THEN <<>>
  ELSE (IF i > 1 THEN <<",">> ELSE <<>>)
         \o (IF Nullish(a[i]) THEN <<>> ELSE ToStringJS(a[i]))
         \o JoinElements(a, i + 1)

\* ToString of the language, as applied by parseFloat and RegExp.prototype.test
ToStringJS(v) ==
  CASE v.t = "undefined" -> <<"u", "n", "d", "e", "f", "i", "n", "e", "d">>
    [] v.t = "null"      -> <<"n", "u", "l", "l">>
    [] v.t = "nan"       -> <<"N", "a", "N">>
    [] v.t = "bool"      -> IF v.b THEN <<"t", "r", "u", "e">>
                            ELSE <<"f", "a", "l", "s", "e">>
    [] v.t = "num"       -> NumChars(v.m, v.k)
    [] v.t = "inf"       -> (IF v.neg THEN <<"-">> ELSE <<>>)
                              \o <<"I", "n", "f", "i", "n", "i", "t", "y">>
    [] v.t = "str"       -> v.s
    [] v.t = "arr"       -> JoinElements(v.a, 1)
    [] OTHER             -> <<"[", "o", "b", "j", "e", "c", "t", " ",
                              "O", "b", "j", "e", "c", "t", "]">>

RECURSIVE SkipStrWS(_, _)
SkipStrWS(s, i) ==
  IF i <= Len(s) /\ s[i] \in StrWS THEN SkipStrWS(s, i + 1) ELSE i

\* parseFloat: the longest prefix of the trimmed string that is a
\* StrDecimalLiteral, NaN when there is none
parseFloat(v) ==
  LET s    == ToStringJS(v)
      i0   == SkipStrWS(s, 1)
      sg   == i0 <= Len(s) /\ s[i0] \in {"+", "-"}
      neg  == sg /\ s[i0] = "-"
      i1   == IF sg THEN i0 + 1 ELSE i0
      ip   == ScanDigits(s, i1, 0, 0)
      dot  == ip.i <= Len(s) /\ s[ip.i] = "."
      fp   == IF dot THEN ScanDigits(s, ip.i + 1, 0, 0)
              ELSE [m |-> 0, n |-> 0, i |-> ip.i]
      ex   == ScanExponent(s, fp.i)
  IN  IF StartsWithAt(s, i1, <<"I", "n", "f", "i", "n", "i", "t", "y">>)
        THEN Infinity(neg)
      ELSE IF ip.n + fp.n = 0 THEN NaN
      ELSE MkNum(neg, ip.m * Pow10(fp.n) + fp.m, fp.n, IF ex.ok THEN ex.e ELSE 0)

isNaN(x) == x.t = "nan"

\* x <= 0 for the result of parseFloat
LeqZero(x) ==
  CASE x.t = "num" -> x.m <= 0
    [] x.t = "inf" -> x.neg
    [] OTHER       -> FALSE

\* the {17} of the order id pattern
OrderIdLen == 17

\* /^[A-Z0-9]{17}$/.test(v); without the m flag $ matches only at the end
OrderIdPattern(v) ==
  LET s == ToStringJS(v)
  IN  Len(s) = OrderIdLen /\ \A i \in 1..Len(s) : s[i] \in (Upper \cup Digits)

(***************************************************************************)
(* JSON.parse, by recursive descent over the characters of the text.       *)
(* A parse result is [ok, v, i]: whether a value was read, the value, and  *)
(* the position after it.  The texts of the model use no \b and no \uXXXX  *)
(* escape.                                                                 *)
(***************************************************************************)
Fail == [ok |-> FALSE]
Got(v, i) == [ok |-> TRUE, v |-> v, i |-> i]

RECURSIVE SkipWS(_, _)
SkipWS(s, i) ==
  IF i <= Len(s) /\ s[i] \in JsonWS THEN SkipWS(s, i + 1) ELSE i

\* the character an escape \c stands for
Unescape(c) ==
  CASE c = "n" -> "\n"
    [] c = "t" -> "\t"
    [] c = "r" -> "\r"
    [] c = "f" -> "\f"
    [] OTHER   -> c

\* the characters of a string literal up to its closing quote; i is the
\* position after the opening quote
RECURSIVE ParseStringBody(_, _, _)
ParseStringBody(s, i, acc) ==
  IF i > Len(s) THEN Fail
  ELSE IF s[i] = "\"" THEN Got(acc, i + 1)
  ELSE IF s[i] = "\\"
    THEN IF i + 1 <= Len(s) /\ s[i + 1] \in {"\"", "\\", "/", "n", "t", "r", "f"}
           THEN ParseStringBody(s, i + 2, Append(acc, Unescape(s[i + 1])))
           ELSE Fail
  ELSE IF s[i] \in {"\n", "\t", "\r", "\f"} THEN Fail
  ELSE ParseStringBody(s, i + 1, Append(acc, s[i]))

\* -? (0 | [1-9][0-9]*) (. [0-9]+)? ([eE] [+-]? [0-9]+)?
ParseNumber(s, i) ==
  LET neg == s[i] = "-"
      j   == IF neg THEN i + 1 ELSE i
      ip  == IF j <= Len(s) /\ s[j] = "0" THEN [m |-> 0, n |-> 1, i |-> j + 1]
             ELSE ScanDigits(s, j, 0, 0)
      dot == ip.i <= Len(s) /\ s[ip.i] = "."
      fp  == IF dot THEN ScanDigits(s, ip.i + 1, 0, 0)
             ELSE [m |-> 0, n |-> 0, i |-> ip.i]
      isE == fp.i <= Len(s) /\ s[fp.i] \in {"e", "E"}
      ex  == ScanExponent(s, fp.i)
  IN  IF ip.n = 0 \/ (dot /\ fp.n = 0) \/ (isE /\ ~ex.ok) THEN Fail
      ELSE Got(MkNum(neg, ip.m * Pow10(fp.n) + fp.m, fp.n, ex.e), ex.i)

RECURSIVE ParseValue(_, _), ParseMembers(_, _, _), ParseElements(_, _, _)
\* the value at position i, which is not white space
ParseValue(s, i) ==
  IF i > Len(s) THEN Fail
  ELSE IF s[i] = "{"
    THEN LET j == SkipWS(s, i + 1)
         IN  IF j <= Len(s) /\ s[j] = "}" THEN Got(Obj(EmptyObject), j + 1)
             ELSE ParseMembers(s, j, EmptyObject)
  ELSE IF s[i] = "["
    THEN LET j == SkipWS(s, i + 1)
         IN  IF j <= Len(s) /\ s[j] = "]" THEN Got(Arr(<<>>), j + 1)
             ELSE ParseElements(s, j, <<>>)
  ELSE IF s[i] = "\""
    THEN LET r == ParseStringBody(s, i + 1, <<>>)
         IN  IF r.ok THEN Got(Str(r.v), r.i) ELSE Fail
  ELSE IF StartsWithAt(s, i, <<"n", "u", "l", "l">>) THEN Got(Null, i + 4)
  ELSE IF StartsWithAt(s, i, <<"t", "r", "u", "e">>) THEN Got(Bool(TRUE), i + 4)
  ELSE IF StartsWithAt(s, i, <<"f", "a", "l", "s", "e">>) THEN Got(Bool(FALSE), i + 5)
  ELSE IF s[i] \in Digits \cup {"-"} THEN ParseNumber(s, i)
  ELSE Fail

\* the members of an object from position i, where a name is due; a
\* repeated name keeps its last value
ParseMembers(s, i, o) ==
  IF i > Len(s) \/ s[i] # "\"" THEN Fail
  ELSE LET k == ParseStringBody(s, i + 1, <<>>)
       IN  IF ~k.ok THEN Fail
           ELSE LET c == SkipWS(s, k.i)
                IN  IF c > Len(s) \/ s[c] # ":" THEN Fail
                    ELSE LET v == ParseValue(s, SkipWS(s, c + 1))
                         IN  IF ~v.ok THEN Fail
                             ELSE LET n  == SkipWS(s, v.i)
                                      o2 == Put(o, k.v, v.v)
                                  IN  IF n > Len(s) THEN Fail
                                      ELSE IF s[n] = "}" THEN Got(Obj(o2), n + 1)
                                      ELSE IF s[n] = ","
                                        THEN ParseMembers(s, SkipWS(s, n + 1), o2)
                                      ELSE Fail

\* the elements of an array from position i, where a value is due
ParseElements(s, i, a) ==
  LET v == ParseValue(s, i)
  IN  IF ~v.ok THEN Fail
      ELSE LET n  == SkipWS(s, v.i)
               a2 == Append(a, v.v)
           IN  IF n > Len(s) THEN Fail
               ELSE IF s[n] = "]" THEN Got(Arr(a2), n + 1)
               ELSE IF s[n] = "," THEN ParseElements(s, SkipWS(s, n + 1), a2)
               ELSE Fail

\* JSON.parse(text): [ok |-> FALSE] stands for the SyntaxError it throws
JSONparse(text) ==
  LET r == ParseValue(text, SkipWS(text, 1))
  IN  IF r.ok /\ SkipWS(text, r.i) > Len(text) THEN Got(r.v, r.i) ELSE Fail

(***************************************************************************)
(* Errors and the three ways a piece of the handler can end                *)
(***************************************************************************)
\* new Error(msg): no statusCode property
Error(msg)     == [name |-> "Error", message |-> msg, stack |-> "stack"]
\* the TypeError the engine throws on a bad property read or call
TypeError(msg) == [name |-> "TypeError", message |-> msg, stack |-> "stack"]

Respond(r)  == [k |-> "respond", r |-> r]
Throw(e)    == [k |-> "throw", e |-> e]
Await(c, q) == [k |-> "await", client |-> c, request |-> q]
Return(v)   == [k |-> "return", v |-> v]

(***************************************************************************)
(* createPayPalClient (main.js 3-16)                                       *)
(***************************************************************************)
\* variant: refuses only when both credentials are missing
createPayPalClient_BothMissing(e) ==
  IF ~Truthy(e.PAYPAL_CLIENT_ID) /\ ~Truthy(e.PAYPAL_SECRET)
    THEN Throw(Error("PayPal credentials not configured"))
    ELSE Return([environment  |-> IF e.PAYPAL_ENVIRONMENT = Str(sProduction)
                                    THEN "LiveEnvironment"
                                    ELSE "SandboxEnvironment",
                 clientId     |-> e.PAYPAL_CLIENT_ID,
                 clientSecret |-> e.PAYPAL_SECRET])

createPayPalClient(e) ==
  LET clientId     == e.PAYPAL_CLIENT_ID
      clientSecret == e.PAYPAL_SECRET
  IN  IF ~Truthy(clientId) \/ ~Truthy(clientSecret)
        THEN Throw(Error("PayPal credentials not configured"))
        ELSE Return([environment  |-> IF e.PAYPAL_ENVIRONMENT = Str(sProduction)
                                        THEN "LiveEnvironment"
                                        ELSE "SandboxEnvironment",
                     clientId     |-> clientId,
                     clientSecret |-> clientSecret])

(***************************************************************************)
(* The handler up to its await (main.js 20-84, 103-115, 135-140)           *)
(***************************************************************************)
\* case 'createOrder', up to paypalClient.execute(createRequest); the
\* request records the parsed amount, not its toFixed(2) rendering
CreateOrderCase(payload, paypalClient) ==
  LET data   == Get(payload, sData)
      amount == parseFloat(Get(data, sAmount))
  IN  IF isNaN(amount) \/ LeqZero(amount)
        THEN Respond([status |-> "error", code |-> 400,
                      message |-> "Invalid amount specified"])
        ELSE Await(paypalClient,
                   [kind          |-> "OrdersCreateRequest",
                    prefer        |-> "return=representation",
                    intent        |-> "CAPTURE",
                    currency_code |-> IF Truthy(Get(data, sCurrency))
                                        THEN Get(data, sCurrency) ELSE Str(sEUR),
                    amount        |-> amount])

\* variant: the order id is passed on unchecked
CaptureOrderCase_Unchecked(payload, paypalClient) ==
  Await(paypalClient,
        [kind    |-> "OrdersCaptureRequest",
         orderId |-> Get(Get(payload, sData), sOrderId)])

\* case 'captureOrder', up to paypalClient.execute(captureRequest)
CaptureOrderCase(payload, paypalClient) ==
  LET data == Get(payload, sData)
  IN  IF ~Truthy(Get(data, sOrderId)) \/ ~OrderIdPattern(Get(data, sOrderId))
        THEN Respond([status |-> "error", code |-> 400,
                      message |-> "Invalid order ID"])
        ELSE Await(paypalClient,
                   [kind    |-> "OrdersCaptureRequest",
                    orderId |-> Get(data, sOrderId)])

\* switch (payload.action): case labels are matched with ===
Dispatch(payload, paypalClient) ==
  LET action == Get(payload, sAction)
  IN  IF action = Str(sCreateOrder) THEN CreateOrderCase(payload, paypalClient)
      ELSE IF action = Str(sCaptureOrder) THEN CaptureOrderCase(payload, paypalClient)
      ELSE Respond([status |-> "error", code |-> 400,
                    message |-> "Unsupported action"])

\* the inner try/catch around JSON.parse
ParsePayload(body) ==
  IF body.t = "str" THEN JSONparse(body.s) ELSE Got(body, 0)

\* the try block from its start to the first await or return
TryBlock(body, e) ==
  IF ~Truthy(body)
    THEN Respond([status |-> "error", code |-> 400,
                  message |-> "Request body is required"])
  ELSE LET parsed == ParsePayload(body)
       IN  IF ~parsed.ok
             THEN Respond([status |-> "error", code |-> 400,
                           message |-> "Invalid JSON format"])
           ELSE LET payload == parsed.v
                IN  IF Nullish(payload)
                      THEN Throw(TypeError("Cannot read properties of null (reading 'action')"))
                    ELSE IF ~Truthy(Get(payload, sAction)) \/ ~Truthy(Get(payload, sData))
                      THEN Respond([status |-> "error", code |-> 400,
                                    message |-> "Missing action or data parameter"])
                    ELSE LET made == createPayPalClient(e)
                         IN  IF made.k = "throw" THEN made
                             ELSE Dispatch(payload, made.v)

(***************************************************************************)
(* The handler after its await (main.js 85-100, 117-132)                   *)
(***************************************************************************)
\* variant: the predicate assigns instead of comparing, so the first link
\* is found whatever its rel
FindApprove_AnyRel(links, i) ==
  IF i > Len(links) THEN Return(Undefined)
  ELSE IF Nullish(links[i])
    THEN Throw(TypeError("Cannot set properties of null (setting 'rel')"))
  ELSE Return(links[i])

\* links.find(link => link.rel === 'approve') from index i on
RECURSIVE FindApprove(_, _)
FindApprove(links, i) ==
  IF i > Len(links) THEN Return(Undefined)
  ELSE IF Nullish(links[i])
    THEN Throw(TypeError("Cannot read properties of null (reading 'rel')"))
  ELSE IF Get(links[i], sRel) = Str(sApprove) THEN Return(links[i])
  ELSE FindApprove(links, i + 1)

AfterCreate(createResponse) ==
  IF Nullish(createResponse)
    THEN Throw(TypeError("Cannot read properties of undefined (reading 'result')"))
  ELSE LET result == Get(createResponse, sResult)
       IN  IF Nullish(result)
             THEN Throw(TypeError("Cannot read properties of undefined (reading 'links')"))
           ELSE LET links == Get(result, sLinks)
                IN  IF Nullish(links)
                      THEN Throw(TypeError("Cannot read properties of undefined (reading 'find')"))
                    ELSE IF links.t # "arr"
                      THEN Throw(TypeError("createResponse.result.links.find is not a function"))
                    ELSE LET found == FindApprove(links.a, 1)
                         IN  IF found.k = "throw" THEN found
                             ELSE LET approvalLink == found.v
                                      href == IF Nullish(approvalLink) THEN Undefined
                                              ELSE Get(approvalLink, sHref)
                                  IN  IF ~Truthy(href)
                                        THEN Throw(Error("Missing approval URL in PayPal response"))
                                        ELSE Respond([status |-> "success",
                                                      data   |-> [orderId     |-> Get(result, sId),
                                                                  approvalUrl |-> href,
                                                                  status      |-> Get(result, sStatus)]])

\* x?.result
OptResult(x) == IF Nullish(x) THEN Undefined ELSE Get(x, sResult)
\* x?.result?.id
OptResultId(x) ==
  IF Nullish(OptResult(x)) THEN Undefined ELSE Get(OptResult(x), sId)

AfterCapture(captureResponse) ==
  IF ~Truthy(OptResultId(captureResponse))
    THEN Throw(Error("Incomplete capture response from PayPal"))
    ELSE LET result == Get(captureResponse, sResult)
         IN  Respond([status |-> "success",
                      data   |-> [captureId |-> Get(result, sId),
                                  status    |-> Get(result, sStatus),
                                  details   |-> [payer          |-> Get(result, sPayer),
                                                 create_time    |-> Get(result, sCreateTime),
                                                 purchase_units |-> Get(result, sPurchaseUnits)]]])

(***************************************************************************)
(* The catch block (main.js 142-151)                                       *)
(***************************************************************************)
\* variant: the status code of the error is ignored
ErrorCode_Always500(error) == 500

\* error.statusCode || 500
ErrorCode(error) ==
  IF "statusCode" \in DOMAIN error /\ error.statusCode # 0
    THEN error.statusCode ELSE 500

\* error.message || 'Internal server error'
ErrorMessage(error) ==
  IF error.message # "" THEN error.message ELSE "Internal server error"

\* variant: the stack trace is attached in every environment
DebugEnabled_Always(e) == TRUE

\* process.env.NODE_ENV !== 'production'
DebugEnabled(e) == e.NODE_ENV # Str(sProduction)

\* variant: the error itself is attached as data
CatchResponse_WithData(error, e) ==
  [status |-> "error", code |-> ErrorCode(error),
   message |-> ErrorMessage(error), data |-> error]

CatchResponse(error, e) ==
  IF DebugEnabled(e)
    THEN [status |-> "error", code |-> ErrorCode(error),
          message |-> ErrorMessage(error), debug |-> error.stack]
    ELSE [status |-> "error", code |-> ErrorCode(error),
          message |-> ErrorMessage(error)]

(***************************************************************************)
(* Inputs: environment variables, request bodies, vendor outcomes          *)
(***************************************************************************)
\* vendor results carry at most MaxLinks links
MaxLinks == 2
\* order ids are tried with OrderIdLen - IdSlack .. OrderIdLen + IdSlack characters
IdSlack == 1

RECURSIVE Rep(_, _)
Rep(c, n) == IF n = 0 THEN <<>> ELSE <<c>> \o Rep(c, n - 1)

\* the object with the given <<name, value>> pairs
RECURSIVE MkObj(_)
MkObj(pairs) ==
  IF Len(pairs) = 0 THEN EmptyObject
  ELSE Put(MkObj(SubSeq(pairs, 1, Len(pairs) - 1)),
           pairs[Len(pairs)][1], pairs[Len(pairs)][2])

\* the JSON text a client sends for a value
RECURSIVE Text(_), TextChars(_, _), TextMembers(_, _), TextElements(_, _)
TextChars(s, i) ==
  IF i > Len(s) THEN <<>>
  ELSE (CASE s[i] = "\"" -> <<"\\", "\"">>
          [] s[i] = "\\" -> <<"\\", "\\">>
          [] s[i] = "\n" -> <<"\\", "n">>
          [] OTHER       -> <<s[i]>>) \o TextChars(s, i + 1)
TextMembers(o, names) ==
  IF names = {} THEN <<>>
  ELSE LET n == CHOOSE x \in names : TRUE
       IN  <<"\"">> \o TextChars(n, 1) \o <<"\"", ":">> \o Text(o[n])
             \o (IF names = {n} THEN <<>> ELSE <<",">>)
             \o TextMembers(o, names \ {n})
TextElements(a, i) ==
  IF i > Len(a) THEN <<>>
  ELSE (IF i > 1 THEN <<",">> ELSE <<>>) \o Text(a[i]) \o TextElements(a, i + 1)
Text(v) ==
  CASE v.t = "str" -> <<"\"">> \o TextChars(v.s, 1) \o <<"\"">>
    [] v.t = "obj" -> <<"{">> \o TextMembers(v.o, DOMAIN v.o) \o <<"}">>
    [] v.t = "arr" -> <<"[">> \o TextElements(v.a, 1) \o <<"]">>
    [] OTHER       -> ToStringJS(v)

\* process.env
EnvValues == [PAYPAL_CLIENT_ID   : {Undefined, Str(<<>>), Str(<<"i", "d">>)},
              PAYPAL_SECRET      : {Undefined, Str(<<>>), Str(<<"s", "e", "c">>)},
              PAYPAL_ENVIRONMENT : {Undefined, Str(sProduction)},
              NODE_ENV           : {Undefined, Str(sProduction), Str(<<"d", "e", "v">>)}]

\* values of data.amount
Amounts ==
  { Undefined, Null, Bool(TRUE), Num(1050, 2), Num(0, 0), Num(0 - 1, 0),
    Str(<<>>), Str(<<"1", "0">>), Str(<<"1", "0", ".", "5", "0">>), Str(<<"0">>),
    Str(<<"0", ".", "0", "0", "1">>), Str(<<"-", "5">>), Str(<<"a", "b", "c">>),
    Str(<<"5", "a", "b", "c">>), Str(<<" ", "7">>), Str(<<"1", "e", "2">>) }

\* values of data.orderId
OrderIds ==
  { Str(Rep(c, n)) : c \in {"A", "7", "a"},
                     n \in (OrderIdLen - IdSlack)..(OrderIdLen + IdSlack) }
    \cup { Str(Rep("A", OrderIdLen - 1) \o <<"\n">>),
           Str(Rep("A", OrderIdLen) \o <<"\n">>),
           Str(<<>>), Num(5, 0), Null, Undefined }

\* an object with the properties among the pairs whose value is not undefined
Props(pairs) == MkObj(SelectSeq(pairs, LAMBDA p : p[2] # Undefined))

\* values of payload.data
CreateData ==
  { Obj(Props(<< <<sAmount, a>> >>)) : a \in Amounts }
    \cup { Obj(Props(<< <<sAmount, Str(<<"1", "0">>)>>, <<sCurrency, c>> >>)) :
             c \in {Str(<<"U", "S", "D">>), Str(<<>>)} }
CaptureData == { Obj(Props(<< <<sOrderId, i>> >>)) : i \in OrderIds }
OtherData ==
  { Undefined, Null, Num(0, 0), Bool(TRUE), Str(<<"x">>), Arr(<<>>),
    Obj(Props(<< <<sAmount, Str(<<"1", "0">>)>> >>)),
    Obj(Props(<< <<sAmount, Str(<<"0">>)>> >>)),
    Obj(Props(<< <<sOrderId, Str(Rep("A", OrderIdLen))>> >>)),
    Obj(Props(<< <<sOrderId, Str(<<"x">>)>> >>)) }

\* values of payload.action
Actions ==
  { Undefined, Str(<<>>), Num(1, 0), Str(sCreateOrder), Str(sCaptureOrder),
    Str(<<"r", "e", "f", "u", "n", "d">>) }

\* parsed payloads
Payloads ==
  { Obj(Props(<< <<sAction, a>>, <<sData, d>> >>)) : a \in Actions, d \in OtherData }
    \cup { Obj(Props(<< <<sAction, Str(sCreateOrder)>>, <<sData, d>> >>)) : d \in CreateData }
    \cup { Obj(Props(<< <<sAction, Str(sCaptureOrder)>>, <<sData, d>> >>)) : d \in CaptureData }
    \cup { Null, Num(5, 0), Num(0, 0), Bool(TRUE), Bool(FALSE), Str(<<"a", "b", "c">>),
           Str(<<>>), Arr(<<>>), Arr(<<Num(1, 0)>>) }

\* texts that are not JSON
Malformed ==
  { <<"{">>, <<"a", "b", "c">>, <<" ">>, <<"{", "}", "x">>,
    <<"{", "'", "a", "'", ":", "1", "}">>,
    <<"{", "\"", "a", "\"", ":", "}">>,
    <<"{", "\"", "a", "\"", ":", "1", ",", "}">>,
    <<"0", "1">>, <<"n", "u", "l">>, <<"[", "1">> }

\* context.req.body: absent, a string, or a value the platform parsed already
Bodies ==
  { Undefined, Null, Str(<<>>), Num(0, 0), Bool(FALSE) }
    \cup { Str(Text(p)) : p \in Payloads }
    \cup { Str(<<" ">> \o Text(p) \o <<"\n">>) : p \in {Null, Obj(EmptyObject)} }
    \cup { Str(m) : m \in Malformed }
    \cup { p \in Payloads : p.t \notin {"str", "null"} }

\* sequences over S of length at most n
RECURSIVE SeqsUpTo(_, _)
SeqsUpTo(S, n) ==
  IF n = 0 THEN {<<>>}
  ELSE LET shorter == SeqsUpTo(S, n - 1)
       IN  shorter \cup { Append(q, x) : q \in shorter, x \in S }

\* entries of result.links
Links ==
  { Obj(MkObj(<< <<sRel, Str(sApprove)>>, <<sHref, Str(<<"u", "1">>)>> >>)),
    Obj(MkObj(<< <<sRel, Str(sApprove)>>, <<sHref, Str(<<"u", "2">>)>> >>)),
    Obj(MkObj(<< <<sRel, Str(sApprove)>>, <<sHref, Str(<<>>)>> >>)),
    Obj(MkObj(<< <<sRel, Str(sApprove)>> >>)),
    Obj(MkObj(<< <<sRel, Str(<<"s", "e", "l", "f">>)>>, <<sHref, Str(<<"u", "3">>)>> >>)) }

\* what execute() may resolve with: results with links, results with or
\* without an id, and responses that lack the expected parts
VendorResponses ==
  { Obj(MkObj(<< <<sResult, Obj(Props(<< <<sId, i>>,
                                          <<sStatus, Str(<<"O", "K">>)>>,
                                          <<sLinks, Arr(l)>> >>))>> >>)) :
      i \in {Undefined, Str(<<"I", "D", "1">>)}, l \in SeqsUpTo(Links, MaxLinks) }
    \cup
  { Obj(MkObj(<< <<sResult, Obj(Props(<< <<sId, i>>, <<sStatus, st>>,
                                          <<sPayer, Obj(EmptyObject)>> >>))>> >>)) :
      i \in {Undefined, Null, Str(<<>>), Str(<<"C", "A", "P", "1">>)},
      st \in {Undefined, Str(<<"C", "O", "M", "P", "L", "E", "T", "E", "D">>)} }
    \cup
  { Undefined, Null, Obj(EmptyObject),
    Obj(MkObj(<< <<sResult, Null>> >>)),
    Obj(MkObj(<< <<sResult, Obj(MkObj(<< <<sId, Str(<<"I", "D", "1">>)>>,
                                         <<sLinks, Str(<<"x">>)>> >>))>> >>)),
    Obj(MkObj(<< <<sResult, Obj(MkObj(<< <<sId, Str(<<"I", "D", "1">>)>>,
                                         <<sLinks, Arr(<<Null>>)>> >>))>> >>)) }

\* what execute() may reject with: an HTTP error of the vendor with its
\* status code, or an error without one (a network failure)
VendorErrors ==
  { [name |-> "HttpError", message |-> m, stack |-> "stack", statusCode |-> c] :
      m \in {"", "vendor error body"}, c \in {0, 401, 422, 500} }
    \cup { [name |-> "Error", message |-> m, stack |-> "stack"] :
             m \in {"", "socket hang up"} }

(***************************************************************************)
(* State                                                                   *)
(***************************************************************************)
VARIABLES
  env,       \* process.env
  pc,        \* "idle": not invoked; "awaiting": suspended at an await;
             \* "done": the handler's promise has settled
  body,      \* context.req.body of the invocation
  executed,  \* the requests passed to paypalClient.execute, in order
  client,    \* the client execute() was called on
  settled,   \* how the awaited promise settled
  sent,      \* the objects passed to context.res.json, in order
  logged,    \* the errors passed to context.error, in order
  escaped    \* the handler's promise rejected

vars == <<env, pc, body, executed, client, settled, sent, logged, escaped>>

NoClient == [environment |-> "none"]
Pending  == [k |-> "pending"]

Init ==
  /\ env \in EnvValues
  /\ pc = "idle"
  /\ body = Undefined
  /\ executed = <<>>
  /\ client = NoClient
  /\ settled = Pending
  /\ sent = <<>>
  /\ logged = <<>>
  /\ escaped = FALSE

\* variant: the catch block logs and throws the error again
CatchBlock_Rethrow(error, e) == Throw(error)

\* the catch block: log, then respond
CatchBlock(error, e) == Respond(CatchResponse(error, e))

\* variant: a failed vendor call is issued once more
Handled_RetryOnce(out, e) ==
  IF out.k = "throw" /\ pc = "awaiting" /\ Len(executed) = 1
    THEN Await(client, executed[1])
  ELSE IF out.k = "throw" THEN CatchBlock(out.e, e) ELSE out

\* the outcome of a piece of the try block, after the catch block has
\* handled what it threw
Handled(out, e) == IF out.k = "throw" THEN CatchBlock(out.e, e) ELSE out

\* the effect of a piece of the handler that ended with outcome out
Complete(out) ==
  LET fin == Handled(out, env)
  IN  /\ logged' = IF out.k = "throw" THEN Append(logged, out.e) ELSE logged
      /\ sent' = IF fin.k = "respond" THEN Append(sent, fin.r) ELSE sent
      /\ executed' = IF fin.k = "await" THEN Append(executed, fin.request) ELSE executed
      /\ client' = IF fin.k = "await" THEN fin.client ELSE client
      /\ escaped' = (escaped \/ fin.k = "throw")
      /\ pc' = IF fin.k = "await" THEN "awaiting" ELSE "done"

\* the platform invokes the handler with a request body
Invoke(b) ==
  /\ pc = "idle"
  /\ body' = b
  /\ Complete(TryBlock(b, env))
  /\ UNCHANGED <<env, settled>>

\* the rest of the case that is suspended
Continue(response) ==
  IF executed[Len(executed)].kind = "OrdersCreateRequest"
    THEN AfterCreate(response) ELSE AfterCapture(response)

\* the awaited execute() resolves
ExecuteResolves(response) ==
  /\ pc = "awaiting"
  /\ settled' = [k |-> "resolved", v |-> response]
  /\ Complete(Continue(response))
  /\ UNCHANGED <<env, body>>

\* the awaited execute() rejects: the await throws inside the try block
ExecuteRejects(error) ==
  /\ pc = "awaiting"
  /\ settled' = [k |-> "rejected", e |-> error]
  /\ Complete(Throw(error))
  /\ UNCHANGED <<env, body>>

Next ==
  \/ \E b \in Bodies : Invoke(b)
  \/ \E r \in VendorResponses : ExecuteResolves(r)
  \/ \E e \in VendorErrors : ExecuteRejects(e)

Spec == Init /\ [][Next]_vars

\* the awaited promise settles: the vendor call ends in a response or in
\* an error, and the event loop then resumes the handler
Settles ==
  \/ \E r \in VendorResponses : ExecuteResolves(r)
  \/ \E e \in VendorErrors : ExecuteRejects(e)

FairSpec == Spec /\ WF_vars(Settles)

(***************************************************************************)
(* Vocabulary of the properties                                            *)
(***************************************************************************)
BodyRequired   == [status |-> "error", code |-> 400, message |-> "Request body is required"]
InvalidJSON    == [status |-> "error", code |-> 400, message |-> "Invalid JSON format"]
MissingParams  == [status |-> "error", code |-> 400, message |-> "Missing action or data parameter"]
InvalidAmount  == [status |-> "error", code |-> 400, message |-> "Invalid amount specified"]
InvalidOrderId == [status |-> "error", code |-> 400, message |-> "Invalid order ID"]
Unsupported    == [status |-> "error", code |-> 400, message |-> "Unsupported action"]
ValidationErrors ==
  {BodyRequired, InvalidJSON, MissingParams, InvalidAmount, InvalidOrderId, Unsupported}

Invoked == pc # "idle"
Done    == pc = "done"

\* the body is present and is, or parses to, a JSON value
BodyParses == Truthy(body) /\ (body.t = "str" => JSONparse(body.s).ok)
\* that value
ThePayload == IF body.t = "str" THEN JSONparse(body.s).v ELSE body
TheAction  == Get(ThePayload, sAction)
TheData    == Get(ThePayload, sData)

\* the body passes the body, JSON and action/data checks
PassesChecks ==
  /\ BodyParses
  /\ ~Nullish(ThePayload)
  /\ Truthy(TheAction)
  /\ Truthy(TheData)

CredsSet == Truthy(env.PAYPAL_CLIENT_ID) /\ Truthy(env.PAYPAL_SECRET)
InProduction == env.NODE_ENV = Str(sProduction)

\* x is a number greater than 0
Positive(x) == (x.t = "num" /\ x.m > 0) \/ (x.t = "inf" /\ ~x.neg)

\* v is a string of exactly 17 characters from A-Z and 0-9
WellFormedId(v) ==
  /\ v.t = "str"
  /\ Len(v.s) = 17
  /\ \A i \in 1..Len(v.s) : v.s[i] \in Upper \cup Digits

CreateKind  == "OrdersCreateRequest"
CaptureKind == "OrdersCaptureRequest"

\* the response came from the catch block
FromCatch == Len(logged) > 0

(***************************************************************************)
(* C1: whatever the environment variables are, a request with no body is   *)
(* answered with 'Request body is required', a string body that is not     *)
(* JSON with 'Invalid JSON format', and a body that parses to any value    *)
(* without a truthy action or a truthy data (null and non-objects          *)
(* included) with 'Missing action or data parameter'.                      *)
(***************************************************************************)
C1_BodyValidation ==
  Invoked =>
    /\ ~Truthy(body) => sent = <<BodyRequired>>
    /\ (Truthy(body) /\ body.t = "str" /\ ~JSONparse(body.s).ok) => sent = <<InvalidJSON>>
    /\ (BodyParses /\ (\/ Nullish(ThePayload)
                       \/ ~Truthy(TheAction)
                       \/ ~Truthy(TheData))) => sent = <<MissingParams>>

(***************************************************************************)
(* C2: for a truthy data and whatever the environment variables are, set   *)
(* credentials or not, a createOrder whose data.amount does not parse to   *)
(* a number greater than 0 is answered with 'Invalid amount specified'     *)
(* and a captureOrder whose data.orderId is missing or is not 17           *)
(* characters from A-Z and 0-9 with 'Invalid order ID'.                    *)
(***************************************************************************)
C2_FieldValidation ==
  (Invoked /\ PassesChecks) =>
    /\ (TheAction = Str(sCreateOrder) /\ ~Positive(parseFloat(Get(TheData, sAmount))))
         => sent = <<InvalidAmount>>
    /\ (TheAction = Str(sCaptureOrder) /\ ~WellFormedId(Get(TheData, sOrderId)))
         => sent = <<InvalidOrderId>>

(***************************************************************************)
(* C3: an invocation ends with exactly one object passed to                *)
(* context.res.json and nothing thrown out of the handler; whatever was    *)
(* thrown inside it ends in a response with status 'error', a numeric code *)
(* and a message.  An invocation that is suspended at its await ends once  *)
(* the awaited promise settles.                                            *)
(***************************************************************************)
C3_Safety ==
  /\ ~escaped
  /\ Len(sent) = (IF Done THEN 1 ELSE 0)
  /\ (Done /\ FromCatch) =>
       /\ sent[1].status = "error"
       /\ sent[1].code \in Int
       /\ sent[1].message # ""

C3_OneResponseNoEscape ==
  /\ []C3_Safety
  /\ Invoked ~> (Done /\ Len(sent) = 1 /\ ~escaped)

\* a vendor call that rejected has been answered
C3_Witness ==
  /\ Done
  /\ settled.k = "rejected"
  /\ FromCatch
  /\ sent[1].status = "error"

(***************************************************************************)
(* C4: a response carries a debug field only if NODE_ENV is not            *)
(* 'production' and the response was produced by the catch block; in       *)
(* production no response carries one.                                     *)
(***************************************************************************)
C4_DebugOnlyOutsideProduction ==
  \A i \in 1..Len(sent) :
    "debug" \in DOMAIN sent[i] => (~InProduction /\ FromCatch)

\* the catch block has answered in production
C4_Witness ==
  /\ Done
  /\ InProduction
  /\ FromCatch
  /\ "debug" \notin DOMAIN sent[1]

(***************************************************************************)
(* C5: execute() is called at most once in an invocation: a vendor call    *)
(* that failed is not retried, and the createOrder and captureOrder        *)
(* branches do not both run.                                               *)
(***************************************************************************)
C5_AtMostOneExecute ==
  /\ Len(executed) <= 1
  /\ settled.k = "rejected" => (Done /\ Len(executed) = 1)
  /\ ~(\E i, j \in 1..Len(executed) :
         executed[i].kind = CreateKind /\ executed[j].kind = CaptureKind)

\* a vendor call has failed and the invocation is over
C5_Witness ==
  /\ Done
  /\ settled.k = "rejected"
  /\ Len(executed) = 1

(***************************************************************************)
(* C6, as stated: every response has its fields among status, code,        *)
(* message and data, with status 'success' or 'error'; a success carries   *)
(* data and neither code nor message, an error carries code and message    *)
(* and no data.                                                            *)
(***************************************************************************)
C6_EnvelopeAsStated ==
  \A i \in 1..Len(sent) :
    /\ DOMAIN sent[i] \subseteq {"status", "code", "message", "data"}
    /\ "status" \in DOMAIN sent[i]
    /\ sent[i].status \in {"success", "error"}
    /\ sent[i].status = "success" => DOMAIN sent[i] = {"status", "data"}
    /\ sent[i].status = "error" =>
         {"code", "message"} \subseteq DOMAIN sent[i] /\ "data" \notin DOMAIN sent[i]

(***************************************************************************)
(* C6, amended: the fields are among status, code, message, data and       *)
(* debug, and debug appears only on an error response of the catch block   *)
(* outside production; the rest as stated.                                 *)
(***************************************************************************)
C6_Envelope ==
  \A i \in 1..Len(sent) :
    /\ DOMAIN sent[i] \subseteq {"status", "code", "message", "data", "debug"}
    /\ "status" \in DOMAIN sent[i]
    /\ sent[i].status \in {"success", "error"}
    /\ sent[i].status = "success" => DOMAIN sent[i] = {"status", "data"}
    /\ sent[i].status = "error" =>
         {"code", "message"} \subseteq DOMAIN sent[i] /\ "data" \notin DOMAIN sent[i]
    /\ "debug" \in DOMAIN sent[i] =>
         (sent[i].status = "error" /\ FromCatch /\ ~InProduction)

\* the catch block has answered outside production, with a stack trace
C6_Witness ==
  /\ Done
  /\ FromCatch
  /\ ~InProduction
  /\ DOMAIN sent[1] = {"status", "code", "message", "debug"}

(***************************************************************************)
(* C7: the response of the catch block has the error's statusCode as code  *)
(* when that is truthy and 500 otherwise, and the error's message as       *)
(* message when that is non-empty and 'Internal server error' otherwise;   *)
(* the error a rejected vendor call reaches the catch block with is the    *)
(* vendor's.                                                               *)
(***************************************************************************)
C7_CatchMapping ==
  (Done /\ FromCatch) =>
    /\ Len(logged) = 1
    /\ settled.k = "rejected" => logged[1] = settled.e
    /\ sent[1].code =
         (IF "statusCode" \in DOMAIN logged[1] /\ logged[1].statusCode # 0
            THEN logged[1].statusCode ELSE 500)
    /\ sent[1].message =
         (IF logged[1].message = "" THEN "Internal server error" ELSE logged[1].message)

\* a vendor error with status code 422 has been reported with code 422
C7_Witness ==
  /\ Done
  /\ settled.k = "rejected"
  /\ "statusCode" \in DOMAIN settled.e
  /\ settled.e.statusCode = 422
  /\ sent[1].code = 422

HasLinkList(r) ==
  /\ r.t = "obj"
  /\ Get(r, sResult).t = "obj"
  /\ Get(Get(r, sResult), sLinks).t = "arr"
  /\ \A i \in 1..Len(Get(Get(r, sResult), sLinks).a) :
       Get(Get(r, sResult), sLinks).a[i].t = "obj"
LinksOf(r) == Get(Get(r, sResult), sLinks).a
\* the positions of the links with rel 'approve'
ApprovePositions(r) ==
  {i \in 1..Len(LinksOf(r)) : Get(LinksOf(r)[i], sRel) = Str(sApprove)}
\* the href of the first of them
FirstApproveHref(r) ==
  Get(LinksOf(r)[CHOOSE i \in ApprovePositions(r) :
                   \A j \in ApprovePositions(r) : i <= j], sHref)
\* r has a first 'approve' link and its href is not empty
HasApprovalUrl(r) == ApprovePositions(r) # {} /\ Truthy(FirstApproveHref(r))
\* r.result.id of a response r, undefined when a part is missing
IdOf(r) ==
  IF r.t = "obj" /\ Get(r, sResult).t = "obj" THEN Get(Get(r, sResult), sId)
  ELSE Undefined

C10_CredentialsFirst ==
  (Invoked /\ ~CredsSet /\ PassesChecks) =>
    /\ Done
    /\ Len(sent) = 1
    /\ sent[1].status = "error"
    /\ sent[1].code = 500
    /\ sent[1].message = "PayPal credentials not configured"
    /\ executed = <<>>

\* without credentials a createOrder with an invalid amount got the
\* credentials error
C10_Witness ==
  /\ Done
  /\ ~CredsSet
  /\ PassesChecks
  /\ TheAction = Str(sCreateOrder)
  /\ ~Positive(parseFloat(Get(TheData, sAmount)))
  /\ sent[1].message = "PayPal credentials not configured"

====
